---------------------------- MODULE Spec2Model ----------------------------
(***************************************************************************)
(* generate_sheet_image of src/app.py: the graph builder (traverse_graph), *)
(* the level-by-level layout with its spring-layout fallback, and the      *)
(* pyplot calls that draw and save the image.                              *)
(*                                                                         *)
(* Every call of generate_sheet_image has its own locals (G, node_labels,  *)
(* pos, level_nodes, buffer); they are modelled as functions of the call.  *)
(* The pyplot figure registry is module state of matplotlib and is shared  *)
(* by all calls.                                                           *)
(*                                                                         *)
(* Floats: a y-coordinate is kept as an exact rational with the common     *)
(* denominator YScale (y = 2.25 is stored as 2.25 * YScale); x-coordinates *)
(* are integers in the code (0, -3, -6, ...) and are stored as they are.   *)
(***************************************************************************)
EXTENDS Integers, Sequences, FiniteSets, TLC

\* ------------------------------------------------------------------ bounds
MaxNodes == 8          \* topics in a generated topic tree
MaxDecoNodes == 4      \* topics in a tree that carries one irregular topic
MaxGraphNodes == 3     \* nodes of a hand-made graph given to the layout
ConcMaxNodes == 2      \* topics in a tree laid out by two concurrent calls

\* ------------------------------------------------------- program constants
XStep == 3             \* pos[node][0] - 3
MaxSpacing == 8        \* min(8, ...)
SpacingNum == 3        \* child_count * 1.5, 1.5 = SpacingNum / SpacingDen
SpacingDen == 2

None == -1
Untitled == <<"Untitled">>
Calls == {1, 2}

\* ----------------------------------------------------------- arithmetic
Max(a, b) == IF a >= b THEN a ELSE b
Min(a, b) == IF a <= b THEN a ELSE b

RECURSIVE Gcd(_, _)
Gcd(a, b) == IF b = 0 THEN a ELSE Gcd(b, a % b)

RECURSIVE LcmUpTo(_)
LcmUpTo(n) == IF n <= 1 THEN 1 ELSE LET l == LcmUpTo(n - 1) IN (l * n) \div Gcd(l, n)

\* the common denominator of every y-coordinate the bounds can produce
YScale == 2 * SpacingDen * LcmUpTo(Max(MaxNodes, MaxGraphNodes))

\* ------------------------------------------------------- topic trees (input)
\* A shape is the sequence of the shapes of a topic's children.
RECURSIVE Forests(_)
Forests(m) ==
  IF m = 0 THEN {<<>>}
  ELSE UNION {{<<s>> \o f : s \in Forests(k - 1), f \in Forests(m - k)} : k \in 1..m}

Shapes(n) == Forests(n - 1)
ShapesUpTo(n) == UNION {Shapes(k) : k \in 1..n}

RECURSIVE Paths(_)
Paths(sh) == {<<>>} \cup UNION {{<<i>> \o p : p \in Paths(sh[i])} : i \in 1..Len(sh)}

TitleOf(path) == <<"T">> \o path

NoDeco == [path |-> <<>>, what |-> "none", split |-> 0]
Decos(sh) ==
  {[path |-> p, what |-> w, split |-> 0] : p \in Paths(sh), w \in {"notitle", "other", "str"}}
  \cup {[path |-> p, what |-> "dict", split |-> j] : p \in Paths(sh), j \in 0..2}

StrTopic == [type |-> "str", title |-> <<>>, topics_type |-> "absent", topics |-> <<>>]

\* The topic of shape sh at path, its title its path; deco makes one topic
\* irregular: no 'title' key, a 'topics' value that is a scalar, a 'topics'
\* dict of two direction buckets, or a child that is a string and no dict.
RECURSIVE MkTopic(_, _, _)
MkTopic(sh, path, d) ==
  LET here == d.what # "none" /\ d.path = path
      kids == [i \in 1..Len(sh) |-> MkTopic(sh[i], Append(path, i), d)]
      j == Min(d.split, Len(sh))
  IN IF here /\ d.what = "str" THEN StrTopic
     ELSE [type |-> "dict",
           title |-> IF here /\ d.what = "notitle" THEN <<>> ELSE <<TitleOf(path)>>,
           topics_type |-> IF here /\ d.what \in {"other", "dict"} THEN d.what
                           ELSE IF Len(sh) = 0 THEN "absent" ELSE "list",
           topics |-> IF here /\ d.what = "other" THEN <<>>
                      ELSE IF here /\ d.what = "dict"
                        THEN << [key |-> "right", subtopics |-> SubSeq(kids, 1, j)],
                                [key |-> "left", subtopics |-> SubSeq(kids, j + 1, Len(sh))] >>
                      ELSE kids]

Sheet(topic) == [title |-> "S", topic |-> <<topic>>]
NoTopicSheet == [title |-> "S", topic |-> <<>>]

PlainSheets(n) == {Sheet(MkTopic(sh, <<>>, NoDeco)) : sh \in ShapesUpTo(n)}
DecoSheets(n) == UNION {{Sheet(MkTopic(sh, <<>>, d)) : d \in Decos(sh)} : sh \in ShapesUpTo(n)}
SheetSet == {NoTopicSheet} \cup PlainSheets(MaxNodes) \cup DecoSheets(MaxDecoNodes)

\* ------------------------------------------------------------ nx.DiGraph
\* nodes and edges keep their insertion order, as networkx's dicts do.
EmptyGraph == [nodes |-> <<>>, attr |-> <<>>, edges |-> <<>>]

Range(seq) == {seq[i] : i \in 1..Len(seq)}
NodeSet(g) == Range(g.nodes)
EdgeSet(g) == Range(g.edges)

add_node(g, n, title, level) ==
  [g EXCEPT !.nodes = IF n \in Range(@) THEN @ ELSE Append(@, n),
            !.attr = (n :> [title |-> title, level |-> level]) @@ @]

\* mutant: the edge is recorded child -> parent
add_edge_reversed(g, u, v) ==
  LET n1 == IF u \in Range(g.nodes) THEN g.nodes ELSE Append(g.nodes, u)
      n2 == IF v \in Range(n1) THEN n1 ELSE Append(n1, v)
  IN [g EXCEPT !.nodes = n2,
               !.edges = IF <<v, u>> \in Range(@) THEN @ ELSE Append(@, <<v, u>>)]

add_edge(g, u, v) ==
  LET n1 == IF u \in Range(g.nodes) THEN g.nodes ELSE Append(g.nodes, u)
      n2 == IF v \in Range(n1) THEN n1 ELSE Append(n1, v)
  IN [g EXCEPT !.nodes = n2,
               !.edges = IF <<u, v>> \in Range(@) THEN @ ELSE Append(@, <<u, v>>)]

\* mutant: the neighbours in both directions, as of an undirected graph
all_neighbors(g, node) ==
  LET out == SelectSeq(g.edges, LAMBDA e : e[1] = node \/ e[2] = node)
  IN [i \in 1..Len(out) |-> IF out[i][1] = node THEN out[i][2] ELSE out[i][1]]

\* list(G.successors(node)): the targets of node's edges, in insertion order
successors(g, node) ==
  LET out == SelectSeq(g.edges, LAMBDA e : e[1] = node)
  IN [i \in 1..Len(out) |-> out[i][2]]

\* mutant: self-loops are not counted
in_degree_no_self_loops(g, n) == Cardinality({e \in EdgeSet(g) : e[2] = n /\ e[1] # n})

\* G.in_degree()
in_degree(g, n) == Cardinality({e \in EdgeSet(g) : e[2] = n})

\* ------------------------------------------------------- traverse_graph
\* topic.get('title', 'Untitled')
topic_title(topic) == IF topic.title = <<>> THEN Untitled ELSE topic.title[1]

RECURSIVE Flatten(_)
Flatten(buckets) ==
  IF Len(buckets) = 0 THEN <<>> ELSE Head(buckets).subtopics \o Flatten(Tail(buckets))

\* mutant: the buckets of a dict are visited last key first
subtopics_buckets_reversed(topic) ==
  CASE topic.topics_type = "list" -> topic.topics
    [] topic.topics_type = "dict" ->
         Flatten([b \in 1..Len(topic.topics) |-> topic.topics[Len(topic.topics) + 1 - b]])
    [] OTHER -> <<>>

\* mutant: no isinstance check, whatever 'topics' holds is iterated; the
\* elements of a scalar (the characters of a string) are no dicts
subtopics_unchecked(topic) ==
  CASE topic.topics_type = "list" -> topic.topics
    [] topic.topics_type = "dict" -> Flatten(topic.topics)
    [] topic.topics_type = "other" -> <<StrTopic>>
    [] OTHER -> <<>>

\* the subtopics the two loops visit, in the order they visit them: a list in
\* list order, a dict bucket after bucket in key order, anything else none
subtopics(topic) ==
  CASE topic.topics_type = "list" -> topic.topics
    [] topic.topics_type = "dict" -> Flatten(topic.topics)
    [] OTHER -> <<>>

\* st = [G, node_labels, raised]: the closure's G and node_labels, and whether
\* an exception has left the recursion. Returns st and next_id.
RECURSIVE traverse_graph(_, _, _, _, _)
RECURSIVE traverse_subtopics(_, _, _, _, _)
traverse_graph(st, topic, parent, node_id, level) ==
  IF topic.type # "dict"
  THEN [st |-> [st EXCEPT !.raised = TRUE], next_id |-> node_id]
  ELSE LET title == topic_title(topic)
           g1 == add_node(st.G, node_id, title, level)
           g2 == IF parent # None THEN add_edge(g1, parent, node_id) ELSE g1
           st2 == [st EXCEPT !.G = g2, !.node_labels = (node_id :> title) @@ @]
       IN traverse_subtopics(st2, subtopics(topic), node_id, node_id + 1, level + 1)

traverse_subtopics(st, subs, current_id, next_id, level) ==
  IF st.raised \/ Len(subs) = 0
  THEN [st |-> st, next_id |-> next_id]
  ELSE LET r == traverse_graph(st, Head(subs), current_id, next_id, level)
       IN traverse_subtopics(r.st, Tail(subs), current_id, r.next_id, level)

\* if 'topic' in sheet_data: traverse_graph(sheet_data['topic'])
build(sheet) ==
  LET st0 == [G |-> EmptyGraph, node_labels |-> <<>>, raised |-> FALSE]
  IN IF Len(sheet.topic) = 0 THEN st0
     ELSE traverse_graph(st0, sheet.topic[1], None, 0, 0).st

\* ---------------------------------------------------------------- layout
\* min(8, child_count * 1.5), in units of 1 / YScale
spacing(child_count) ==
  Min(MaxSpacing * YScale, (child_count * SpacingNum * YScale) \div SpacingDen)

\* start_y = pos[node][1] - (spacing / 2)
start_y_of(py, child_count) == py - spacing(child_count) \div 2

\* mutant: the span is divided by child_count, not by child_count - 1
child_pos_div_count(ppos, sy, child_count, i) ==
  IF child_count = 1
  THEN <<ppos[1] - XStep, ppos[2]>>
  ELSE <<ppos[1] - XStep, sy + (spacing(child_count) \div child_count) * i>>

\* the value assigned to pos[child] for the i-th child (i from 0) of a node at
\* ppos: line 343 for an only child, line 350 otherwise
child_pos(ppos, sy, child_count, i) ==
  IF child_count = 1
  THEN <<ppos[1] - XStep, ppos[2]>>
  ELSE <<ppos[1] - XStep,
         IF child_count > 1
         THEN sy + (spacing(child_count) \div (child_count - 1)) * i
         ELSE sy>>

\* mutant: the children replace the list of the next level
extend_level_overwrite(ln, nxt, ch) == (nxt :> ch) @@ ln

\* level_nodes[level + 1] = level_nodes.get(level + 1, []) + children
extend_level(ln, nxt, ch) ==
  (nxt :> ((IF nxt \in DOMAIN ln THEN ln[nxt] ELSE <<>>) \o ch)) @@ ln

\* root_nodes = [n for n, d in G.in_degree() if d == 0]
root_nodes(g) == SelectSeq(g.nodes, LAMBDA n : in_degree(g, n) = 0)

RECURSIVE MaxOf(_)
MaxOf(S) == LET x == CHOOSE y \in S : TRUE
            IN IF S = {x} THEN x ELSE Max(x, MaxOf(S \ {x}))

\* max(levels.values()) with levels = {n: d['level'] for n, d in G.nodes(data=True)}
max_level_of(g) == MaxOf({g.attr[n].level : n \in NodeSet(g)})

\* nx.spring_layout(G, seed=42, k=0.3, iterations=100): a position for every
\* node of G and for nothing else; {} for the empty graph, the centre for a
\* single node. The coordinates networkx computes for larger graphs are not
\* modelled: the i-th node stands at (i, 0).
spring_layout(g) ==
  [n \in NodeSet(g) |->
     IF Len(g.nodes) = 1 THEN <<0, 0>>
     ELSE <<CHOOSE i \in 1..Len(g.nodes) : g.nodes[i] = n, 0>>]

\* ---------------------------------------------------------------- pyplot
\* The registry of open figures (Gcf.figs), the last one the current figure.
\* owner and implicit record which call made a figure and whether plt.gcf()
\* made it for want of an open one; artists records which calls drew what.
new_figure(fs, c, implicit) ==
  LET nums == {fs[i].num : i \in 1..Len(fs)}
      num == IF nums = {} THEN 1 ELSE MaxOf(nums) + 1
  IN Append(fs, [num |-> num, owner |-> c, implicit |-> implicit, artists |-> {}])

\* plt.figure(figsize=(24, 18))
plt_figure(fs, c) == new_figure(fs, c, FALSE)

\* plt.gcf(): the current figure, made on the spot when none is open
plt_gcf(fs, c) == IF Len(fs) = 0 THEN new_figure(fs, c, TRUE) ELSE fs

\* a drawing call with ax=None draws on plt.gca()
plt_draw(fs, c, what) ==
  LET g == plt_gcf(fs, c)
  IN [g EXCEPT ![Len(g)].artists = @ \cup {<<c, what>>}]

\* plt.close('all')
plt_close_all(fs) == <<>>

Drawn(c) == {<<c, "nodes">>, <<c, "edges">>, <<c, "labels">>, <<c, "title">>}

\* ------------------------------------------------------------------ state
VARIABLES
  sheet_data,    \* the argument of each call
  pc,            \* where each call stands
  G,             \* nx.DiGraph of each call
  node_labels,   \* node_labels of each call
  raised,        \* whether the call's try block was left by an exception
  pos,           \* pos of each call
  level_nodes,   \* level_nodes of each call
  max_level,     \* max(levels.values()), fixed when the level loop starts
  level,         \* the level loop's variable
  node_idx,      \* the place of node in level_nodes[level], from 1
  children,      \* children of the node being processed
  start_y,       \* start_y of the node being processed
  child_idx,     \* i of enumerate(children)
  fallback_used, \* whether line 354 ran
  buffer,        \* what the call saved: <<>> or <<the figure saved>>
  figs           \* pyplot's open figures, shared by all calls

vars == <<sheet_data, pc, G, node_labels, raised, pos, level_nodes, max_level,
          level, node_idx, children, start_y, child_idx, fallback_used, buffer, figs>>

layout_vars == <<pos, level_nodes, max_level, level, node_idx, children, start_y,
                 child_idx, fallback_used>>
loop_vars == <<level, node_idx, children, start_y, child_idx>>

Locals0 ==
  /\ G = [c \in Calls |-> EmptyGraph]
  /\ node_labels = [c \in Calls |-> <<>>]
  /\ raised = [c \in Calls |-> FALSE]
  /\ pos = [c \in Calls |-> <<>>]
  /\ level_nodes = [c \in Calls |-> <<>>]
  /\ max_level = [c \in Calls |-> 0]
  /\ level = [c \in Calls |-> 0]
  /\ node_idx = [c \in Calls |-> 0]
  /\ children = [c \in Calls |-> <<>>]
  /\ start_y = [c \in Calls |-> 0]
  /\ child_idx = [c \in Calls |-> 0]
  /\ fallback_used = [c \in Calls |-> FALSE]
  /\ buffer = [c \in Calls |-> <<>>]

\* one request: call 1 runs, call 2 never starts
Init ==
  /\ \E s \in SheetSet : sheet_data = [c \in Calls |-> IF c = 1 THEN s ELSE NoTopicSheet]
  /\ pc = [c \in Calls |-> IF c = 1 THEN "start" ELSE "idle"]
  /\ Locals0
  /\ figs = <<>>

\* ---------------------------------------------------------------- actions
\* lines 262-267
Start(c) ==
  /\ pc[c] = "start"
  /\ G' = [G EXCEPT ![c] = EmptyGraph]
  /\ node_labels' = [node_labels EXCEPT ![c] = <<>>]
  /\ buffer' = [buffer EXCEPT ![c] = <<>>]
  /\ pc' = [pc EXCEPT ![c] = "build"]
  /\ UNCHANGED <<sheet_data, raised, layout_vars, figs>>

\* lines 270-302
Build(c) ==
  /\ pc[c] = "build"
  /\ LET r == build(sheet_data[c])
     IN /\ G' = [G EXCEPT ![c] = r.G]
        /\ node_labels' = [node_labels EXCEPT ![c] = r.node_labels]
        /\ raised' = [raised EXCEPT ![c] = r.raised]
        /\ pc' = [pc EXCEPT ![c] = IF r.raised THEN "except" ELSE "figure"]
  /\ UNCHANGED <<sheet_data, layout_vars, buffer, figs>>

\* lines 305-309
Figure(c) ==
  /\ pc[c] = "figure"
  /\ figs' = plt_figure(figs, c)
  /\ pc' = [pc EXCEPT ![c] = "layout"]
  /\ UNCHANGED <<sheet_data, G, node_labels, raised, layout_vars, buffer>>

\* lines 313-325
LayoutInit(c) ==
  /\ pc[c] = "layout"
  /\ LET roots == root_nodes(G[c])
     IN IF Len(roots) > 0
        THEN /\ pos' = [pos EXCEPT ![c] = (roots[1] :> <<0, 0>>)]
             /\ level_nodes' = [level_nodes EXCEPT ![c] = (0 :> <<roots[1]>>)]
             /\ max_level' = [max_level EXCEPT ![c] = max_level_of(G[c])]
             /\ level' = [level EXCEPT ![c] = 0]
             /\ pc' = [pc EXCEPT ![c] = "level"]
        ELSE /\ pos' = [pos EXCEPT ![c] = <<>>]
             /\ pc' = [pc EXCEPT ![c] = "fallback"]
             /\ UNCHANGED <<level_nodes, max_level, level>>
  /\ UNCHANGED <<sheet_data, G, node_labels, raised, node_idx, children, start_y,
                 child_idx, fallback_used, buffer, figs>>

\* lines 325-329: one turn of "for level in range(...)"
LevelStep(c) ==
  /\ pc[c] = "level"
  /\ IF level[c] > max_level[c]
     THEN /\ pc' = [pc EXCEPT ![c] = "fallback"]
          /\ UNCHANGED <<level, node_idx>>
     ELSE IF level[c] \notin DOMAIN level_nodes[c]
     THEN /\ level' = [level EXCEPT ![c] = @ + 1]
          /\ UNCHANGED <<pc, node_idx>>
     ELSE /\ node_idx' = [node_idx EXCEPT ![c] = 1]
          /\ pc' = [pc EXCEPT ![c] = "node"]
          /\ UNCHANGED level
  /\ UNCHANGED <<sheet_data, G, node_labels, raised, pos, level_nodes, max_level,
                 children, start_y, child_idx, fallback_used, buffer, figs>>

\* lines 329-347: one turn of "for node in level_nodes[level]", up to the
\* assignments of the children's positions
NodeStep(c) ==
  /\ pc[c] = "node"
  /\ IF node_idx[c] > Len(level_nodes[c][level[c]])
     THEN /\ level' = [level EXCEPT ![c] = @ + 1]
          /\ pc' = [pc EXCEPT ![c] = "level"]
          /\ UNCHANGED <<level_nodes, node_idx, children, start_y, child_idx>>
     ELSE LET node == level_nodes[c][level[c]][node_idx[c]]
              ch == successors(G[c], node)
              child_count == Len(ch)
              nxt == level[c] + 1
          IN IF child_count > 0
             THEN /\ level_nodes' = [level_nodes EXCEPT ![c] = extend_level(@, nxt, ch)]
                  /\ children' = [children EXCEPT ![c] = ch]
                  /\ start_y' = [start_y EXCEPT ![c] =
                                   IF child_count = 1 THEN @
                                   ELSE start_y_of(pos[c][node][2], child_count)]
                  /\ child_idx' = [child_idx EXCEPT ![c] = 0]
                  /\ pc' = [pc EXCEPT ![c] = "place"]
                  /\ UNCHANGED <<level, node_idx>>
             ELSE /\ node_idx' = [node_idx EXCEPT ![c] = @ + 1]
                  /\ UNCHANGED <<pc, level, level_nodes, children, start_y, child_idx>>
  /\ UNCHANGED <<sheet_data, G, node_labels, raised, pos, max_level, fallback_used,
                 buffer, figs>>

\* line 343, or one turn of the loop of lines 349-350
PlaceChild(c) ==
  /\ pc[c] = "place"
  /\ LET node == level_nodes[c][level[c]][node_idx[c]]
         child_count == Len(children[c])
         i == child_idx[c]
         child == children[c][i + 1]
     IN /\ pos' = [pos EXCEPT ![c] =
                     (child :> child_pos(pos[c][node], start_y[c], child_count, i)) @@ @]
        /\ IF i + 1 = child_count
           THEN /\ node_idx' = [node_idx EXCEPT ![c] = @ + 1]
                /\ pc' = [pc EXCEPT ![c] = "node"]
                /\ UNCHANGED child_idx
           ELSE /\ child_idx' = [child_idx EXCEPT ![c] = i + 1]
                /\ UNCHANGED <<pc, node_idx>>
  /\ UNCHANGED <<sheet_data, G, node_labels, raised, level_nodes, max_level, level,
                 children, start_y, fallback_used, buffer, figs>>

\* lines 353-354
FallbackCheck(c) ==
  /\ pc[c] = "fallback"
  /\ IF DOMAIN pos[c] = {}
     THEN /\ pos' = [pos EXCEPT ![c] = spring_layout(G[c])]
          /\ fallback_used' = [fallback_used EXCEPT ![c] = TRUE]
     ELSE UNCHANGED <<pos, fallback_used>>
  /\ pc' = [pc EXCEPT ![c] = "draw_nodes"]
  /\ UNCHANGED <<sheet_data, G, node_labels, raised, level_nodes, max_level, loop_vars,
                 buffer, figs>>

Plt(c, from, what, to) ==
  /\ pc[c] = from
  /\ figs' = plt_draw(figs, c, what)
  /\ pc' = [pc EXCEPT ![c] = to]
  /\ UNCHANGED <<sheet_data, G, node_labels, raised, layout_vars, buffer>>

\* line 369
DrawNodes(c) == Plt(c, "draw_nodes", "nodes", "draw_edges")
\* line 372
DrawEdges(c) == Plt(c, "draw_edges", "edges", "draw_labels")
\* lines 378-380
DrawLabels(c) == Plt(c, "draw_labels", "labels", "title")
\* lines 383-385
Title(c) == Plt(c, "title", "title", "savefig")

\* lines 388-389: plt.savefig saves plt.gcf()
Savefig(c) ==
  /\ pc[c] = "savefig"
  /\ figs' = plt_gcf(figs, c)
  /\ buffer' = [buffer EXCEPT ![c] = <<figs'[Len(figs')]>>]
  /\ pc' = [pc EXCEPT ![c] = "finally"]
  /\ UNCHANGED <<sheet_data, G, node_labels, raised, layout_vars>>

\* lines 391-393
Except(c) ==
  /\ pc[c] = "except"
  /\ pc' = [pc EXCEPT ![c] = "finally"]
  /\ UNCHANGED <<sheet_data, G, node_labels, raised, layout_vars, buffer, figs>>

\* lines 394-396
Close(c) ==
  /\ pc[c] = "finally"
  /\ figs' = plt_close_all(figs)
  /\ pc' = [pc EXCEPT ![c] = "return"]
  /\ UNCHANGED <<sheet_data, G, node_labels, raised, layout_vars, buffer>>

\* line 398
Return(c) ==
  /\ pc[c] = "return"
  /\ pc' = [pc EXCEPT ![c] = "done"]
  /\ UNCHANGED <<sheet_data, G, node_labels, raised, layout_vars, buffer, figs>>

Next ==
  \E c \in Calls :
    \/ Start(c) \/ Build(c) \/ Figure(c)
    \/ LayoutInit(c) \/ LevelStep(c) \/ NodeStep(c) \/ PlaceChild(c) \/ FallbackCheck(c)
    \/ DrawNodes(c) \/ DrawEdges(c) \/ DrawLabels(c) \/ Title(c) \/ Savefig(c)
    \/ Except(c) \/ Close(c) \/ Return(c)

Spec == Init /\ [][Next]_vars

\* ------------------------------------------- the layout on hand-made graphs
\* Graphs that traverse_graph never builds (cycles, several roots, shared
\* children), given to the layout code of lines 313-354 as G.
PairSeq(k) == [i \in 1..(k * k) |-> <<(i - 1) \div k, (i - 1) % k>>]

GraphOf(k, E, lv) ==
  [nodes |-> [i \in 1..k |-> i - 1],
   attr |-> [n \in 0..(k - 1) |-> [title |-> TitleOf(<<n>>), level |-> IF lv = 0 THEN 0 ELSE n]],
   edges |-> SelectSeq(PairSeq(k), LAMBDA e : e \in E)]

InitGraph ==
  /\ sheet_data = [c \in Calls |-> NoTopicSheet]
  /\ pc = [c \in Calls |-> IF c = 1 THEN "layout" ELSE "idle"]
  /\ \E k \in 0..MaxGraphNodes :
       \E E \in SUBSET Range(PairSeq(k)) :
         \E lv \in 0..1 :
           LET g == GraphOf(k, E, lv)
           IN /\ G = [c \in Calls |-> IF c = 1 THEN g ELSE EmptyGraph]
              /\ node_labels = [c \in Calls |-> IF c = 1
                                                THEN [n \in NodeSet(g) |-> g.attr[n].title]
                                                ELSE <<>>]
  /\ raised = [c \in Calls |-> FALSE]
  /\ pos = [c \in Calls |-> <<>>]
  /\ level_nodes = [c \in Calls |-> <<>>]
  /\ max_level = [c \in Calls |-> 0]
  /\ level = [c \in Calls |-> 0]
  /\ node_idx = [c \in Calls |-> 0]
  /\ children = [c \in Calls |-> <<>>]
  /\ start_y = [c \in Calls |-> 0]
  /\ child_idx = [c \in Calls |-> 0]
  /\ fallback_used = [c \in Calls |-> FALSE]
  /\ buffer = [c \in Calls |-> <<>>]
  /\ figs = plt_figure(<<>>, 1)

NextGraph ==
  \E c \in Calls :
    LayoutInit(c) \/ LevelStep(c) \/ NodeStep(c) \/ PlaceChild(c) \/ FallbackCheck(c)

SpecGraph == InitGraph /\ [][NextGraph]_vars

\* ------------------------------------------------------ two requests at once
\* Flask serves each request on a thread of its own; two requests for sheet
\* images run generate_sheet_image concurrently.
ConcSheets == {NoTopicSheet, Sheet(StrTopic)} \cup PlainSheets(ConcMaxNodes)

InitConc ==
  /\ sheet_data \in [Calls -> ConcSheets]
  /\ pc = [c \in Calls |-> "start"]
  /\ Locals0
  /\ figs = <<>>

SpecConc == InitConc /\ [][Next]_vars

\* ------------------------------------------------------------------ claims
\* traverse_graph has just returned; the layout step has just finished
Built(c) == pc[c] = "figure"
LayoutDone(c) == pc[c] = "draw_nodes"
\* at any later point of a call that did not raise
AfterBuild(c) == pc[c] \notin {"idle", "start", "build"} /\ ~raised[c]
AfterLayout(c) ==
  /\ ~raised[c]
  /\ pc[c] \in {"draw_nodes", "draw_edges", "draw_labels", "title", "savefig",
                "finally", "return", "done"}
Levels(g) == {g.attr[n].level : n \in NodeSet(g)}
ChildCount(g, n) == Cardinality({e \in EdgeSet(g) : e[1] = n})

\* C1 (completeness): once the layout of a graph built by traverse_graph has
\* finished, pos has an entry for every node of the graph and for nothing else.
Completeness_C1 ==
  \A c \in Calls : LayoutDone(c) => DOMAIN pos[c] = NodeSet(G[c])

\* a finished layout of a full-size tree with at least three levels
Witness_C1 ==
  /\ LayoutDone(1)
  /\ Len(G[1].nodes) = MaxNodes
  /\ 2 \in Levels(G[1])
  /\ DOMAIN pos[1] = NodeSet(G[1])

\* The titles of a topic tree in depth-first, left-to-right pre-order as the
\* claim words it: list children in list order, dict children bucket by
\* bucket in key order; a topic without children value of either kind is a leaf.
RECURSIVE Preorder(_)
RECURSIVE PreorderAll(_)
RECURSIVE PreorderBuckets(_)
Preorder(topic) ==
  <<IF Len(topic.title) = 0 THEN Untitled ELSE topic.title[1]>>
  \o (IF topic.topics_type = "list" THEN PreorderAll(topic.topics)
      ELSE IF topic.topics_type = "dict" THEN PreorderBuckets(topic.topics)
      ELSE <<>>)
PreorderAll(ts) ==
  IF Len(ts) = 0 THEN <<>> ELSE Preorder(ts[1]) \o PreorderAll(Tail(ts))
PreorderBuckets(bs) ==
  IF Len(bs) = 0 THEN <<>> ELSE PreorderAll(bs[1].subtopics) \o PreorderBuckets(Tail(bs))

\* v is reached from u along edges
RECURSIVE Reaches(_, _, _, _)
Reaches(g, u, v, fuel) ==
  /\ fuel > 0
  /\ \E e \in EdgeSet(g) : e[1] = u /\ (e[2] = v \/ Reaches(g, e[2], v, fuel - 1))

\* C2 (pre-order identity law): a tree of N topics gets exactly the identities
\* 0..N-1, the k-th topic of the pre-order walk identity k-1 (the root 0), and
\* every descendant of a node a larger identity than the node.
PreorderIdentity_C2 ==
  \A c \in Calls :
    Built(c) /\ Len(sheet_data[c].topic) = 1 =>
      LET g == G[c]
          order == Preorder(sheet_data[c].topic[1])
          N == Len(order)
      IN /\ g.nodes = [i \in 1..N |-> i - 1]
         /\ DOMAIN node_labels[c] = 0..(N - 1)
         /\ \A i \in 1..N : /\ node_labels[c][i - 1] = order[i]
                            /\ g.attr[i - 1].title = order[i]
         /\ \A u, v \in NodeSet(g) : Reaches(g, u, v, N) => u < v

\* Scenario B's shape: a root whose children come in two non-empty direction
\* buckets, built
Witness_C2 ==
  /\ Built(1)
  /\ Len(sheet_data[1].topic) = 1
  /\ LET t == sheet_data[1].topic[1]
     IN /\ t.topics_type = "dict"
        /\ Len(t.topics[1].subtopics) = 2
        /\ Len(t.topics[2].subtopics) = 1
  /\ Len(G[1].nodes) = 4

\* C3 (tree): the built graph has N nodes and N-1 edges, every node but the
\* root exactly one incoming edge, from the identity of its immediate parent
\* (the topic whose path is the node's path less its last step), the root has
\* level 0 and every edge goes one level down.
Parent(t) == SubSeq(t, 1, Len(t) - 1)
Tree_C3 ==
  \A c \in Calls :
    Built(c) /\ Len(sheet_data[c].topic) = 1 =>
      LET g == G[c]
          N == Len(g.nodes)
      IN /\ N >= 1
         /\ Len(g.edges) = N - 1
         /\ Cardinality(EdgeSet(g)) = N - 1
         /\ in_degree(g, 0) = 0
         /\ g.attr[0].level = 0
         /\ \A n \in NodeSet(g) \ {0} :
              Cardinality({e \in EdgeSet(g) : e[2] = n}) = 1
         /\ \A e \in EdgeSet(g) :
              /\ e[1] \in NodeSet(g) /\ e[2] \in NodeSet(g)
              /\ g.attr[e[2]].level = g.attr[e[1]].level + 1
              /\ g.attr[e[2]].title # Untitled /\ g.attr[e[1]].title # Untitled
                   => g.attr[e[1]].title = Parent(g.attr[e[2]].title)
              \* the nearest earlier node one level up
              /\ e[1] < e[2]
              /\ \A m \in NodeSet(g) :
                   e[1] < m /\ m < e[2] => g.attr[m].level > g.attr[e[1]].level

\* a built tree of full size, four levels deep
Witness_C3 ==
  /\ Built(1)
  /\ Len(G[1].nodes) = MaxNodes
  /\ Len(G[1].edges) = MaxNodes - 1
  /\ 3 \in Levels(G[1])

\* min(8, 1.5 * k) and the claim's y of the i-th of k children, times YScale
ClaimSpacing(k) == IF 3 * k <= 16 THEN (3 * k * YScale) \div 2 ELSE 8 * YScale
ClaimY(py, k, i) == (py - ClaimSpacing(k) \div 2) + (ClaimSpacing(k) \div (k - 1)) * i

\* C4 (sibling placement): an only child stands at (px - 3, py); the i-th of
\* k > 1 children at (px - 3, (py - spacing/2) + spacing/(k-1) * i) with
\* spacing = min(8, 1.5 k): distinct, evenly spaced, symmetric about py; the
\* three children of a root at (0, 0) at y = -2.25, 0, 2.25.
SiblingPlacement_C4 ==
  \A c \in Calls :
    LayoutDone(c) /\ ~fallback_used[c] =>
      \A n \in NodeSet(G[c]) :
        LET ch == successors(G[c], n)
            k == Len(ch)
            px == pos[c][n][1]
            py == pos[c][n][2]
            y(i) == pos[c][ch[i + 1]][2]
        IN /\ k = 1 => pos[c][ch[1]] = <<px - 3, py>>
           /\ k > 1 =>
                /\ \A i \in 0..(k - 1) : pos[c][ch[i + 1]] = <<px - 3, ClaimY(py, k, i)>>
                /\ \A i, j \in 0..(k - 1) : i # j => y(i) # y(j)
                /\ \A i \in 0..(k - 2) : y(i + 1) - y(i) = y(1) - y(0)
                /\ \A i \in 0..(k - 1) : y(i) + y(k - 1 - i) = 2 * py
           /\ k = 3 /\ n = 0 =>
                /\ 4 * y(0) = -9 * YScale
                /\ y(1) = 0
                /\ 4 * y(2) = 9 * YScale

\* a finished layout where one node has an only child and another so many
\* children that the spacing is capped at 8
Witness_C4 ==
  /\ LayoutDone(1)
  /\ ~fallback_used[1]
  /\ \E n \in NodeSet(G[1]) : ChildCount(G[1], n) >= 6
  /\ \E n \in NodeSet(G[1]) : ChildCount(G[1], n) = 1

\* C5 (non-overlapping layout): the primary heuristic gives no two distinct
\* nodes of the graph the same (x, y), nodes of one level with different
\* parents included.
NoOverlap_C5 ==
  \A c \in Calls :
    LayoutDone(c) /\ ~fallback_used[c] =>
      \A a, b \in NodeSet(G[c]) : a # b => pos[c][a] # pos[c][b]

\* C6 (no crossing edges): every node of level L stands at x = -3 L, and for
\* two nodes p1, p2 of one level with y(p1) < y(p2) no child of p1 stands
\* higher than a child of p2.
NoCrossing_C6 ==
  \A c \in Calls :
    LayoutDone(c) /\ ~fallback_used[c] =>
      LET g == G[c]
      IN /\ \A n \in NodeSet(g) : pos[c][n][1] = -3 * g.attr[n].level
         /\ \A e1, e2 \in EdgeSet(g) :
              /\ e1[1] # e2[1]
              /\ g.attr[e1[1]].level = g.attr[e2[1]].level
              /\ pos[c][e1[1]][2] < pos[c][e2[1]][2]
              => pos[c][e1[2]][2] <= pos[c][e2[2]][2]

\* no node has in-degree 0
NoRoot(g) == \A n \in NodeSet(g) : \E e \in EdgeSet(g) : e[2] = n

\* C7 (fallback activation): on a graph without a node of in-degree 0 (the
\* empty graph included) the primary heuristic leaves pos empty, the fallback
\* is applied and pos then has an entry for every node of the graph; when the
\* primary heuristic has placed a node, the fallback is not applied.
FallbackActivation_C7 ==
  \A c \in Calls :
    /\ pc[c] \in {"level", "node", "place"} => ~NoRoot(G[c]) /\ DOMAIN pos[c] # {}
    /\ pc[c] = "fallback" => ~fallback_used[c] /\ (NoRoot(G[c]) <=> DOMAIN pos[c] = {})
    /\ pc[c] = "draw_nodes" =>
         /\ NoRoot(G[c]) => fallback_used[c] /\ DOMAIN pos[c] = NodeSet(G[c])
         /\ ~NoRoot(G[c]) => ~fallback_used[c] /\ pos[c][root_nodes(G[c])[1]] = <<0, 0>>

\* the fallback has laid out a graph of three nodes, each on a cycle
Witness_C7 ==
  /\ pc[1] = "draw_nodes"
  /\ fallback_used[1]
  /\ Len(G[1].nodes) = 3
  /\ NoRoot(G[1])
  /\ DOMAIN pos[1] = {0, 1, 2}

\* the topic with the defaults written out: the title "Untitled" where there
\* is none, no 'topics' key where its value is neither list nor dict
RECURSIVE Regular(_)
Regular(topic) ==
  [type |-> topic.type,
   title |-> IF Len(topic.title) = 0 THEN <<Untitled>> ELSE topic.title,
   topics_type |-> IF topic.topics_type \in {"list", "dict"} THEN topic.topics_type
                   ELSE "absent",
   topics |-> IF topic.topics_type = "list"
                THEN [i \in 1..Len(topic.topics) |-> Regular(topic.topics[i])]
              ELSE IF topic.topics_type = "dict"
                THEN [b \in 1..Len(topic.topics) |->
                        [key |-> topic.topics[b].key,
                         subtopics |-> [i \in 1..Len(topic.topics[b].subtopics) |->
                                          Regular(topic.topics[b].subtopics[i])]]]
              ELSE <<>>]

RECURSIVE AllDicts(_)
AllDicts(topic) ==
  /\ topic.type = "dict"
  /\ topic.topics_type = "list" => \A i \in 1..Len(topic.topics) : AllDicts(topic.topics[i])
  /\ topic.topics_type = "dict" =>
       \A b \in 1..Len(topic.topics) :
         \A i \in 1..Len(topic.topics[b].subtopics) : AllDicts(topic.topics[b].subtopics[i])

RECURSIVE Irregular(_, _)
Irregular(topic, what) ==
  \/ what = "other" /\ topic.topics_type = "other"
  \/ what = "notitle" /\ Len(topic.title) = 0 /\ topic.type = "dict"
  \/ topic.topics_type = "list" /\ \E i \in 1..Len(topic.topics) : Irregular(topic.topics[i], what)

\* C8 (permissive input): a topic whose 'topics' is neither list nor dict is
\* built as a leaf, a topic without title gets the title "Untitled"; the build
\* raises nothing and every other node gets the identity, level and edges it
\* has when the defaults are written out in the input.
Permissive_C8 ==
  \A c \in Calls :
    pc[c] \in {"figure", "except"} /\ Len(sheet_data[c].topic) = 1
      /\ AllDicts(sheet_data[c].topic[1]) =>
      LET t == sheet_data[c].topic[1]
          want == build(Sheet(Regular(t)))
      IN /\ ~raised[c]
         /\ G[c] = want.G
         /\ node_labels[c] = want.node_labels
         /\ Len(G[c].nodes) = Len(Preorder(Regular(t)))
         /\ \A n \in NodeSet(G[c]) : G[c].attr[n].title = Preorder(Regular(t))[n + 1]

\* built: a tree with a topic, not the root, whose 'topics' is a scalar
Witness_C8 ==
  /\ pc[1] = "figure"
  /\ ~raised[1]
  /\ Len(G[1].nodes) >= 3
  /\ sheet_data[1].topic[1].topics_type = "list"
  /\ Irregular(sheet_data[1].topic[1], "other")

\* C9 (write-once positions): an entry of pos, once set, is never assigned
\* again nor changed by a later step of the level loop; pos is replaced only by
\* the fallback, which runs only on an empty pos and puts a complete map.
WriteOnce_C9 ==
  [][\A c \in Calls :
       /\ \A n \in DOMAIN pos[c] : n \in DOMAIN pos'[c] /\ pos'[c][n] = pos[c][n]
       /\ PlaceChild(c) => children[c][child_idx[c] + 1] \notin DOMAIN pos[c]
       /\ pos'[c] # pos[c] =>
            \/ LayoutInit(c) /\ DOMAIN pos[c] = {}
            \/ PlaceChild(c)
            \/ /\ FallbackCheck(c) /\ DOMAIN pos[c] = {}
               /\ fallback_used'[c] /\ DOMAIN pos'[c] = NodeSet(G[c])
       /\ fallback_used'[c] /\ ~fallback_used[c] => DOMAIN pos[c] = {}]_vars

\* the level loop has placed every node of a full-size tree
Witness_C9 ==
  /\ pc[1] = "fallback"
  /\ ~fallback_used[1]
  /\ Cardinality(DOMAIN pos[1]) = MaxNodes
  /\ 2 \in DOMAIN level_nodes[1]

\* C10 (thread safety): two concurrent calls do not affect each other: each
\* builds the graph and the positions it builds alone, the figure a call
\* creates stays open until the call has saved it, only that call draws on it,
\* and it is the figure the call saves. Stated for two well-formed sheets,
\* where neither call raises.
WellFormed(sheet) == Len(sheet.topic) = 1 /\ AllDicts(sheet.topic[1])
ThreadSafe_C10 ==
  (\A d \in Calls : WellFormed(sheet_data[d])) =>
  \A c \in Calls :
    /\ AfterBuild(c) => G[c] = build(sheet_data[c]).G
    /\ AfterLayout(c) => DOMAIN pos[c] = NodeSet(G[c])
    /\ ~raised[c] /\ pc[c] \in {"layout", "level", "node", "place", "fallback", "draw_nodes",
                                "draw_edges", "draw_labels", "title", "savefig"} =>
         \E i \in 1..Len(figs) :
           /\ figs[i].owner = c /\ ~figs[i].implicit
           /\ figs[i].artists \subseteq Drawn(c)
    /\ ~raised[c] /\ pc[c] \in {"finally", "return", "done"} =>
         /\ Len(buffer[c]) = 1
         /\ buffer[c][1].owner = c /\ ~buffer[c][1].implicit
         /\ buffer[c][1].artists = Drawn(c)

=============================================================================
